---- MODULE Spec2Model ----
\* Model of oio's benchmark job (src/job.rs) and its sample sets
\* (src/sample.rs).  Job::run is the main thread; each spawned tokio task is
\* a worker, which runs concurrently with the main thread from the moment
\* runtime.spawn returned.  Every read of the clock and every await of a
\* storage call is a step of its own, and the clock may advance between any
\* two steps.  The clock's origin is the entry of Job::run; one tick is
\* NanosPerTick nanoseconds.
EXTENDS Integers, Sequences, FiniteSets, TLC

\* ---------------------------------------------------------------- bounds
\* last tick of the clock
MaxTime == 2
\* operations a worker may start without the clock advancing
MaxOps == 1
\* a payload size that is not a multiple of the chunk size
LargeFileSize == 10000
\* observations added to each sample set under test
MaxLen == 2

\* ------------------------------------------------------------- constants
ChunkSize == 4096
MinFileSize == 4096
NanosPerSec == 1000000000
NanosPerMicro == 1000
\* length of a tick of the model's clock: not a whole number of
\* microseconds, so that as_micros() truncates
NanosPerTick == 6250

\* ---------------------------------------------------------------- inputs
RunTimes == {0, 1}
FileSizes == {MinFileSize, LargeFileSize}
\* uuid::Uuid::new_v4() names the object; keys are interchangeable, one stands
\* for the generated name
Keys == {"oio-test-a"}
\* values of num_jobs in the configuration file, besides its absence; the
\* handles of the workers they spawn
JobCounts == {0, 1, 2}
Workers == {1, 2}
\* observations added to sample sets
Vals == {1, 2}
\* arguments of SampleSet::percentile: 99, 95 and 50 as Report::new passes
\* them, and the two ends of the range
Percents == {0, 50, 95, 99, 100}

\* ------------------------------------------------------- f64, as n/d pairs
\* A float is <<n, d>>: the finite value n/d in lowest terms when d > 0,
\* +infinity <<1, 0>>, -infinity <<-1, 0>> and NaN <<0, 0>>.  Values are
\* exact: rounding to 53 bits is not represented.
RECURSIVE Gcd(_, _)
Gcd(a, b) == IF b = 0 THEN a ELSE Gcd(b, a % b)

Inf == <<1, 0>>
NaN == <<0, 0>>
NegInf == <<-1, 0>>

\* a panic (arithmetic overflow with overflow checks on, unwrap of None), in
\* place of a value
Panic == <<0, -1>>

F64(a) == <<a, 1>>

IsPositiveFinite(x) == x[2] > 0 /\ x[1] > 0

Abs(n) == IF n < 0 THEN -n ELSE n

\* the float n/d, d > 0, in lowest terms
Ratio(n, d) == LET g == Gcd(Abs(n), d) IN <<n \div g, d \div g>>

\* x < y on floats; false when either is NaN
FLt(x, y) ==
  IF x = NaN \/ y = NaN \/ x = y THEN FALSE
  ELSE IF x = NegInf \/ y = Inf THEN TRUE
  ELSE IF x = Inf \/ y = NegInf THEN FALSE
  ELSE x[1] * y[2] < y[1] * x[2]

\* f64::min and f64::max: the other operand when one is NaN
FMin(x, y) ==
  IF x = NaN THEN y ELSE IF y = NaN THEN x ELSE IF FLt(y, x) THEN y ELSE x

FMax(x, y) ==
  IF x = NaN THEN y ELSE IF y = NaN THEN x ELSE IF FLt(x, y) THEN y ELSE x

FNeg(x) == <<-x[1], x[2]>>

\* x + y
FAdd(x, y) ==
  IF x = NaN \/ y = NaN THEN NaN
  ELSE IF x[2] = 0 /\ y[2] = 0 THEN (IF x = y THEN x ELSE NaN)
  ELSE IF x[2] = 0 THEN x
  ELSE IF y[2] = 0 THEN y
  ELSE Ratio(x[1] * y[2] + y[1] * x[2], x[2] * y[2])

FSub(x, y) == FAdd(x, FNeg(y))

\* x.powi(2)
FSquare(x) ==
  IF x = NaN THEN NaN
  ELSE IF x[2] = 0 THEN Inf
  ELSE <<x[1] * x[1], x[2] * x[2]>>

Sign(n) == IF n < 0 THEN -1 ELSE 1

\* x / y (IEEE 754: a non-zero value over zero is an infinity, 0/0 and
\* inf/inf are NaN); zero is taken as +0
FQuot(x, y) ==
  IF x = NaN \/ y = NaN THEN NaN
  ELSE IF x[2] = 0 /\ y[2] = 0 THEN NaN
  ELSE IF y[2] = 0 THEN F64(0)
  ELSE IF x[2] = 0 THEN <<x[1] * Sign(y[1]), 0>>
  ELSE IF y[1] = 0
       THEN (IF x[1] = 0 THEN NaN ELSE IF x[1] > 0 THEN Inf ELSE NegInf)
  ELSE LET g == Gcd(Abs(x[1]), Abs(y[1]))
           h == Gcd(x[2], y[2])
       IN <<Sign(y[1]) * (x[1] \div g) * (y[2] \div h),
            (x[2] \div h) * (Abs(y[1]) \div g)>>

\* x / (n as f64) for a length n
FDivLen(x, n) == FQuot(x, F64(n))

\* x.sqrt(), kept symbolic: the square root of sqrt_of
FSqrt(x) == [sqrt_of |-> x]

\* Duration of d ticks: as_micros() truncates to whole microseconds,
\* as_secs_f64() keeps the nanoseconds
as_micros(d) == (d * NanosPerTick) \div NanosPerMicro
as_secs_f64(d) == Ratio(d * NanosPerTick, NanosPerSec)

\* ------------------------------------------------------------ SampleSet
SampleSet_default == << >>

add_front(self, sample) == <<sample>> \o self

add(self, sample) == Append(self, sample)

merge_skipfirst(self, other) ==
  IF other = << >> THEN self ELSE self \o Tail(other)

merge(self, other) == self \o other

num_samples(self) == Len(self)

RECURSIVE FoldMin(_, _)
FoldMin(self, a) ==
  IF self = << >> THEN a ELSE FoldMin(Tail(self), FMin(a, Head(self)))

RECURSIVE FoldMax(_, _)
FoldMax(self, a) ==
  IF self = << >> THEN a ELSE FoldMax(Tail(self), FMax(a, Head(self)))

\* iter().sum::<f64>(): from 0.0, in order
RECURSIVE FSum(_)
FSum(self) ==
  IF self = << >> THEN F64(0)
  ELSE FAdd(FSum(SubSeq(self, 1, Len(self) - 1)), self[Len(self)])

\* sample.rs 22-24
min(self) == FoldMin(self, Inf)

max_last(self) == IF self = << >> THEN NegInf ELSE self[Len(self)]

\* sample.rs 27-32
max(self) == FoldMax(self, NegInf)

\* sample.rs 35-37
avg(self) == FDivLen(FSum(self), Len(self))

\* sample.rs 42-47: the sum of the squared deviations from avg
SquaredDeviations(self, a) ==
  FSum([i \in DOMAIN self |-> FSquare(FSub(self[i], a))])

stdev_sample(self) ==
  FSqrt(FDivLen(SquaredDeviations(self, avg(self)), Len(self) - 1))

\* sample.rs 40-49
stdev(self) ==
  FSqrt(FDivLen(SquaredDeviations(self, avg(self)), Len(self)))

\* what is left of a sort whose comparator panicked
Unwound == <<Panic>>

\* sample.rs 54: one insertion of sort_by(|a, b| a.partial_cmp(b).unwrap());
\* partial_cmp is None when either side is NaN, and unwrap panics
RECURSIVE Insert(_, _)
Insert(sorted, x) ==
  IF sorted = Unwound THEN Unwound
  ELSE IF sorted = << >> THEN <<x>>
  ELSE IF x = NaN \/ Head(sorted) = NaN THEN Unwound
  ELSE IF FLt(x, Head(sorted)) THEN <<x>> \o sorted
  ELSE LET rest == Insert(Tail(sorted), x)
       IN IF rest = Unwound THEN Unwound ELSE <<Head(sorted)>> \o rest

\* sample.rs 53-54: the sorted copy; a slice of fewer than two elements is
\* not compared at all
RECURSIVE Sort(_)
Sort(self) ==
  IF self = << >> THEN << >>
  ELSE Insert(Sort(SubSeq(self, 1, Len(self) - 1)), self[Len(self)])

percentile_rankN(self, p, overflow_checks) ==
  LET sorted == Sort(self)
      idx == (Len(sorted) * p) \div 100
  IN IF idx < Len(sorted) THEN sorted[idx + 1] ELSE NaN

\* sample.rs 52-59.  `sorted.len() - 1` on an empty set panics with overflow
\* checks and wraps without them; the wrapped product is 0 or beyond every
\* index, and get() of an empty Vec is None.  `as usize` truncates toward
\* zero and takes a negative value to 0.
percentile(self, p, overflow_checks) ==
  LET sorted == Sort(self)
      idx == IF p < 0 THEN 0 ELSE ((Len(sorted) - 1) * p) \div 100
  IN IF sorted = Unwound THEN Panic
     ELSE IF Len(sorted) = 0 THEN (IF overflow_checks THEN Panic ELSE NaN)
     ELSE IF idx < Len(sorted) THEN sorted[idx + 1] ELSE NaN

\* ---------------------------------------------------------------- Config
NoneJobs == [some |-> FALSE, val |-> 0]
SomeJobs(n) == [some |-> TRUE, val |-> n]

unwrap_or(opt, dflt) == IF opt.some THEN opt.val ELSE dflt

validate(c) == ~(c.file_size < MinFileSize)

Configs ==
  [num_jobs : {NoneJobs} \cup {SomeJobs(n) : n \in JobCounts},
   workload : {"download", "upload"},
   file_size : FileSizes \cup {1024},
   run_time : RunTimes]

\* ------------------------------------------------------------------ Task
NoTask == [kind |-> "none", path |-> "", file_size |-> 0]
Download(p) == [kind |-> "download", path |-> p, file_size |-> 0]
Upload(p, fs) == [kind |-> "upload", path |-> p, file_size |-> fs]

\* Storage calls one Task::run awaits when none fails: read_with (line 119),
\* or writer (127), file_size / 4096 writes (131-135) and close (137).
TaskRunCalls(t) ==
  IF t.kind = "download" THEN 1 ELSE t.file_size \div ChunkSize + 2

\* bytes the k-th storage call of Task::run hands to the writer: each write
\* of the upload loop passes the whole buffer of file_size bytes (lines 125,
\* 132)
CallHands(t, k) ==
  IF t.kind = "upload" /\ 1 < k /\ k < TaskRunCalls(t) THEN t.file_size ELSE 0

\* the value of Task::run when every call succeeded (lines 122, 141)
TaskRunBytes(t, st) ==
  IF t.kind = "download" THEN st[t.path]
  ELSE (t.file_size \div ChunkSize) * ChunkSize

\* the object store after the last call of Task::run: close commits the
\* bytes handed to the writer under the task's key
TaskRunStore(t, sent, st) ==
  IF t.kind = "download" THEN st ELSE [st EXCEPT ![t.path] = sent]

\* ----------------------------------------------------------------- state
VARIABLES
  now,        \* the monotonic clock (std::time::Instant), in ticks
  cfg,        \* self.config.job of the validated Config
  mpc,        \* position of the thread running Job::run
  start,      \* `start` of Job::run
  path,       \* `path` of prepare_task
  chunk,      \* iterations done by the staging loop of prepare_task
  wbuf,       \* bytes handed to the staging writer so far
  store,      \* the object store: size of the object under each key
  task,       \* `task` of Job::run
  preparedAt, \* clock value at which prepare_task returned
  wk,         \* the spawned worker loops, by handle index
  joined,     \* handles consumed by the join loop
  acc,        \* the accumulators `bandwidth`, `latency`, `iops` of Job::run
  result,     \* what Job::run returned
  ss          \* sample sets a, b, c under test and the outcome of the last call

vars == <<now, cfg, mpc, start, path, chunk, wbuf, store, task, preparedAt,
          wk, joined, acc, result, ss>>

num_jobs == unwrap_or(cfg.num_jobs, 1)
run_time == cfg.run_time

EmptyTriple ==
  [bandwidth |-> SampleSet_default, latency |-> SampleSet_default,
   iops |-> SampleSet_default]

NoResult == [status |-> "none", samples |-> EmptyTriple, failedAt |-> "none"]
Ok(t) == [status |-> "ok", samples |-> t, failedAt |-> "none"]
Err(where) == [status |-> "err", samples |-> EmptyTriple, failedAt |-> where]

\* A worker loop: its position, the locals of the async block, the progress
\* of the Task::run in flight (storage calls that returned, bytes handed to
\* the writer), and a record of what it did: operations issued, elapsed time
\* read at the last deadline test, latency of the last operation, operations
\* completed after the deadline, operations that failed, byte count returned
\* by and bytes handed to the writer in its last successful Task::run.
\*   "unspawned"  no task yet
\*   "spawned"    spawned, not polled yet
\*   "boundary"   about to run line 51
\*   "starting"   about to run line 54
\*   "inflight"   suspended in an await of Task::run
\*   "recording"  about to run line 60
\*   "done" / "failed" / "cancelled"
NewWorker ==
  [pc |-> "unspawned", count |-> 0,
   bandwidth |-> SampleSet_default, latency |-> SampleSet_default,
   iops |-> SampleSet_default,
   task_start |-> 0, target |-> NoTask, step |-> 0, sent |-> 0,
   issued |-> 0, lastCheck |-> -1, lastLat |-> 0, late |-> 0, errors |-> 0,
   bytes |-> 0, handed |-> 0]

NoOut == [op |-> "none"]
NoSets == [phase |-> "build", a |-> SampleSet_default,
           b |-> SampleSet_default, c |-> SampleSet_default, out |-> NoOut]

Init ==
  /\ now = 0
  /\ cfg \in {c \in Configs : validate(c)}
  /\ mpc = "entry"
  /\ start = 0
  /\ path = ""
  /\ chunk = 0
  /\ wbuf = 0
  /\ store = [k \in Keys |-> 0]
  /\ task = NoTask
  /\ preparedAt = -1
  /\ wk = [w \in Workers |-> NewWorker]
  /\ joined = 0
  /\ acc = EmptyTriple
  /\ result = NoResult
  /\ ss = NoSets

\* --------------------------------------------------------------- Job::run
\* Dropping the tokio runtime when Job::run returns: a task that is
\* suspended (not polled yet, or in an await of Task::run) is dropped
\* there; a task that is running goes on to its next await or to its end.
DropRuntime(ws) ==
  [w \in Workers |->
     IF ws[w].pc \in {"spawned", "inflight"}
     THEN [ws[w] EXCEPT !.pc = "cancelled"] ELSE ws[w]]

\* `?` on an Err: Job::run returns the error.
ReturnErr(where) ==
  /\ result' = Err(where)
  /\ mpc' = "returned"
  /\ wk' = DropRuntime(wk)

PrepareErr_continue(where) ==
  /\ result' = Err(where)
  /\ mpc' = "spawn"
  /\ wk' = wk

\* line 38: `?` on the Err of prepare_task
PrepareErr(where) == ReturnErr(where)

\* lines 26-29
Enter ==
  /\ mpc = "entry"
  /\ start' = now
  /\ mpc' = "build_operator"
  /\ UNCHANGED <<ss, now, cfg, path, chunk, wbuf, store, task, preparedAt, wk,
                 joined, acc, result>>

\* line 30
BuildOperator(ok) ==
  /\ mpc = "build_operator"
  /\ IF ok THEN mpc' = "build_runtime" /\ UNCHANGED <<result, wk>>
     ELSE ReturnErr("build_operator")
  /\ UNCHANGED <<ss, now, cfg, start, path, chunk, wbuf, store, task,
                 preparedAt, joined, acc>>

\* lines 32-36; tokio panics on worker_threads(0)
BuildRuntime(ok) ==
  /\ mpc = "build_runtime"
  /\ IF num_jobs = 0 THEN mpc' = "panicked" /\ UNCHANGED <<result, wk>>
     ELSE IF ok THEN mpc' = "prepare" /\ UNCHANGED <<result, wk>>
     ELSE ReturnErr("build_runtime")
  /\ UNCHANGED <<ss, now, cfg, start, path, chunk, wbuf, store, task,
                 preparedAt, joined, acc>>

\* prepare_task, lines 80-87 and 100-103
PrepareTask(p, ok) ==
  /\ mpc = "prepare"
  /\ path' = p
  /\ IF cfg.workload = "upload"
     THEN /\ task' = Upload(p, cfg.file_size)
          /\ preparedAt' = now
          /\ mpc' = "spawn"
          /\ UNCHANGED <<result, wk>>
     ELSE /\ IF ok THEN mpc' = "staging_open" /\ UNCHANGED <<result, wk>>
             ELSE PrepareErr("prepare_build_operator")
          /\ UNCHANGED <<task, preparedAt>>
  /\ UNCHANGED <<ss, now, cfg, start, chunk, wbuf, store, joined, acc>>

\* prepare_task, line 89
StagingOpen(ok) ==
  /\ mpc = "staging_open"
  /\ IF ok THEN mpc' = "staging_write" /\ UNCHANGED <<result, wk>>
     ELSE PrepareErr("staging_open")
  /\ UNCHANGED <<ss, now, cfg, start, path, chunk, wbuf, store, task,
                 preparedAt, joined, acc>>

\* prepare_task, lines 90-95: one iteration of the chunk loop
StagingWrite(ok) ==
  /\ mpc = "staging_write"
  /\ chunk < cfg.file_size \div ChunkSize
  /\ IF ok THEN /\ chunk' = chunk + 1
                /\ wbuf' = wbuf + ChunkSize
                /\ UNCHANGED <<mpc, result, wk>>
     ELSE PrepareErr("staging_write") /\ UNCHANGED <<chunk, wbuf>>
  /\ UNCHANGED <<ss, now, cfg, start, path, store, task, preparedAt, joined,
                 acc>>

\* prepare_task, lines 96-98
StagingClose(ok) ==
  /\ mpc = "staging_write"
  /\ chunk = cfg.file_size \div ChunkSize
  /\ IF ok THEN /\ store' = [store EXCEPT ![path] = wbuf]
                /\ task' = Download(path)
                /\ preparedAt' = now
                /\ mpc' = "spawn"
                /\ UNCHANGED <<result, wk>>
     ELSE PrepareErr("staging_close") /\ UNCHANGED <<store, task, preparedAt>>
  /\ UNCHANGED <<ss, now, cfg, start, path, chunk, wbuf, joined, acc>>

task_clone_resized(t) == [t EXCEPT !.file_size = ChunkSize]

\* line 44: task.clone()
task_clone(t) == t

\* handles pushed so far by the spawn loop
NumSpawned == Cardinality({w \in Workers : wk[w].pc # "unspawned"})

\* lines 42-63: one iteration of the spawn loop; runtime.spawn hands the new
\* task to the runtime, which may poll it at once.  After the last
\* iteration, lines 65-67.
Spawn ==
  /\ mpc = "spawn"
  /\ NumSpawned < num_jobs
  /\ wk' = [wk EXCEPT ![NumSpawned + 1] =
              [@ EXCEPT !.pc = "spawned", !.target = task_clone(task)]]
  /\ IF NumSpawned + 1 = num_jobs
     THEN /\ acc' = EmptyTriple
          /\ joined' = 0
          /\ mpc' = "join"
     ELSE UNCHANGED <<acc, joined, mpc>>
  /\ UNCHANGED <<ss, now, cfg, start, path, chunk, wbuf, store, task,
                 preparedAt, result>>

JoinIsErr_never(r) == FALSE

\* what `handle.await ... ??` yields for a finished worker (line 70)
JoinIsErr(r) == r.pc = "failed"

\* lines 71-73
MergeTriple(a, r) ==
  [bandwidth |-> merge(a.bandwidth, r.bandwidth),
   latency |-> merge(a.latency, r.latency),
   iops |-> merge(a.iops, r.iops)]

\* lines 68-76: one iteration of the join loop; after the last one, Ok
Join ==
  /\ mpc = "join"
  /\ joined < num_jobs
  /\ wk[joined + 1].pc \in {"done", "failed"}
  /\ IF JoinIsErr(wk[joined + 1])
     THEN /\ ReturnErr("worker")
          /\ UNCHANGED <<joined, acc>>
     ELSE /\ acc' = MergeTriple(acc, wk[joined + 1])
          /\ joined' = joined + 1
          /\ IF joined + 1 = num_jobs
             THEN /\ result' = Ok(acc')
                  /\ mpc' = "returned"
                  /\ wk' = DropRuntime(wk)
             ELSE UNCHANGED <<mpc, result, wk>>
  /\ UNCHANGED <<ss, now, cfg, start, path, chunk, wbuf, store, task,
                 preparedAt>>

\* ------------------------------------------------------- the worker loop
elapsed(t) == t - start

DeadlinePassed_ge(el) == el >= run_time

\* line 51: the deadline test at an iteration boundary
DeadlinePassed(el) == el > run_time

\* lines 51-53 with the clock read at t: return the sample sets, or go on
\* to line 54
Boundary(r, t) ==
  IF DeadlinePassed(elapsed(t))
  THEN [r EXCEPT !.pc = "done", !.lastCheck = elapsed(t)]
  ELSE [r EXCEPT !.pc = "starting", !.lastCheck = elapsed(t)]

\* line 54 with the clock read at t, and Task::run up to its first await
Begin(r, t) ==
  [r EXCEPT !.pc = "inflight", !.task_start = t, !.issued = @ + 1,
            !.step = 0, !.sent = 0]

\* the k-th storage call of Task::run returned Ok
CallOk(r, k) ==
  [r EXCEPT !.step = k, !.sent = @ + CallHands(r.target, k)]

Record_nolatency(r, bytes, t) ==
  LET lat == t - r.task_start
  IN [r EXCEPT !.pc = "recording",
               !.count = @ + 1,
               !.bytes = bytes,
               !.handed = r.sent,
               !.task_start = 0,
               !.step = 0,
               !.sent = 0,
               !.bandwidth = add(@, FQuot(F64(bytes), as_secs_f64(lat))),
               !.lastLat = lat,
               !.late = IF elapsed(t) > run_time THEN @ + 1 ELSE @]

\* lines 55-59 with the clock read at t, for a Task::run that returned
\* Ok(bytes)
Record(r, bytes, t) ==
  LET lat == t - r.task_start
  IN [r EXCEPT !.pc = "recording",
               !.count = @ + 1,
               !.bytes = bytes,
               !.handed = r.sent,
               !.task_start = 0,
               !.step = 0,
               !.sent = 0,
               !.latency = add(@, F64(as_micros(lat))),
               !.bandwidth = add(@, FQuot(F64(bytes), as_secs_f64(lat))),
               !.lastLat = lat,
               !.late = IF elapsed(t) > run_time THEN @ + 1 ELSE @]

\* line 60 with the clock read at t
RecordIops(r, t) ==
  [r EXCEPT !.pc = "boundary",
            !.iops = add(@, FQuot(F64(r.count), as_secs_f64(elapsed(t))))]

OnError_retry(r, t, k) ==
  [r EXCEPT !.pc = "starting", !.errors = @ + 1, !.step = k]

\* line 55 on an Err, when the k-th storage call of Task::run failed: the `?`
\* inside Task::run (lines 121, 129, 134, 139) skips its remaining calls and
\* the `?` of line 55 ends the worker loop with the error
OnError(r, t, k) ==
  [r EXCEPT !.pc = "failed", !.errors = @ + 1, !.step = k,
            !.lastLat = t - r.task_start]

\* first poll of a spawned worker: lines 46-53
WorkerPoll(w) ==
  /\ wk[w].pc = "spawned"
  /\ wk' = [wk EXCEPT ![w] = Boundary(@, now)]
  /\ UNCHANGED <<ss, now, cfg, mpc, start, path, chunk, wbuf, store, task,
                 preparedAt, joined, acc, result>>

\* lines 51-53 at a later iteration boundary
WorkerTest(w) ==
  /\ wk[w].pc = "boundary"
  /\ wk' = [wk EXCEPT ![w] = Boundary(@, now)]
  /\ UNCHANGED <<ss, now, cfg, mpc, start, path, chunk, wbuf, store, task,
                 preparedAt, joined, acc, result>>

\* line 54 and the start of Task::run.  MaxOps bounds the operations a
\* worker starts without the clock advancing.  A worker that gets here
\* while the runtime is being dropped is dropped at this await.
WorkerStart(w) ==
  /\ wk[w].pc = "starting"
  /\ wk[w].issued < MaxOps + elapsed(now)
  /\ wk' = [wk EXCEPT ![w] =
              IF mpc = "returned"
              THEN [Begin(@, now) EXCEPT !.pc = "cancelled"]
              ELSE Begin(@, now)]
  /\ UNCHANGED <<ss, now, cfg, mpc, start, path, chunk, wbuf, store, task,
                 preparedAt, joined, acc, result>>

\* the storage call a worker is suspended in returns: read_with (line 119),
\* writer (127), a write (132) or close (137).  On Err the worker ends; on
\* Ok of the last call Task::run returns and lines 56-59 run.
WorkerCall(w, ok) ==
  /\ wk[w].pc = "inflight"
  /\ LET r == wk[w]
         k == r.step + 1
     IN IF ~ok
        THEN /\ wk' = [wk EXCEPT ![w] = OnError(r, now, k)]
             /\ UNCHANGED store
        ELSE IF k < TaskRunCalls(r.target)
        THEN /\ wk' = [wk EXCEPT ![w] = CallOk(r, k)]
             /\ UNCHANGED store
        ELSE /\ wk' = [wk EXCEPT ![w] =
                         Record(CallOk(r, k), TaskRunBytes(r.target, store),
                                now)]
             /\ store' = TaskRunStore(r.target, r.sent, store)
  /\ UNCHANGED <<ss, now, cfg, mpc, start, path, chunk, wbuf, task,
                 preparedAt, joined, acc, result>>

\* line 60
WorkerIops(w) ==
  /\ wk[w].pc = "recording"
  /\ wk' = [wk EXCEPT ![w] = RecordIops(@, now)]
  /\ UNCHANGED <<ss, now, cfg, mpc, start, path, chunk, wbuf, store, task,
                 preparedAt, joined, acc, result>>

\* ------------------------------------------------------------- the clock
\* a worker that waits for its first poll or for a storage call
Suspended(w) == wk[w].pc \in {"spawned", "inflight"}

\* a worker that is running code of the async block
Running(w) == wk[w].pc \in {"boundary", "starting", "recording"}

\* The monotonic clock advances at any moment between the entry of Job::run
\* and the moment nothing of the run reads it any more: while Job::run is
\* on its way to the spawn loop or in it, and while a worker lives.
Tick ==
  /\ \/ mpc \in {"build_operator", "build_runtime", "prepare", "staging_open",
                 "staging_write", "spawn"}
     \/ \E w \in Workers : Suspended(w) \/ Running(w)
  /\ now < MaxTime
  /\ now' = now + 1
  /\ UNCHANGED <<ss, cfg, mpc, start, path, chunk, wbuf, store, task,
                 preparedAt, wk, joined, acc, result>>

Next ==
  \/ Enter
  \/ \E ok \in BOOLEAN : BuildOperator(ok)
  \/ \E ok \in BOOLEAN : BuildRuntime(ok)
  \/ \E p \in Keys, ok \in BOOLEAN : PrepareTask(p, ok)
  \/ \E ok \in BOOLEAN : StagingOpen(ok)
  \/ \E ok \in BOOLEAN : StagingWrite(ok)
  \/ \E ok \in BOOLEAN : StagingClose(ok)
  \/ Spawn
  \/ Join
  \/ \E w \in Workers : WorkerPoll(w)
  \/ \E w \in Workers : WorkerTest(w)
  \/ \E w \in Workers : WorkerStart(w)
  \/ \E w \in Workers, ok \in BOOLEAN : WorkerCall(w, ok)
  \/ \E w \in Workers : WorkerIops(w)
  \/ Tick

Spec == Init /\ [][Next]_vars

\* The run under the scheduling the code relies on: the main thread takes
\* its next step, a blocking call on storage or on the runtime builder
\* comes back, tokio polls every spawned task and runs it to its next await,
\* every storage call in flight returns (with success or failure), and the
\* clock advances.
Fairness ==
  /\ WF_vars(Enter)
  /\ WF_vars(\E ok \in BOOLEAN : BuildOperator(ok))
  /\ WF_vars(\E ok \in BOOLEAN : BuildRuntime(ok))
  /\ WF_vars(\E p \in Keys, ok \in BOOLEAN : PrepareTask(p, ok))
  /\ WF_vars(\E ok \in BOOLEAN : StagingOpen(ok))
  /\ WF_vars(\E ok \in BOOLEAN : StagingWrite(ok))
  /\ WF_vars(\E ok \in BOOLEAN : StagingClose(ok))
  /\ WF_vars(Spawn)
  /\ WF_vars(Join)
  /\ \A w \in Workers :
       /\ WF_vars(WorkerPoll(w))
       /\ WF_vars(WorkerTest(w))
       /\ WF_vars(WorkerStart(w))
       /\ WF_vars(\E ok \in BOOLEAN : WorkerCall(w, ok))
       /\ WF_vars(WorkerIops(w))
  /\ WF_vars(Tick)

FairSpec == Init /\ [][Next]_vars /\ Fairness

\* ------------------------------------------------ sample sets on their own
\* Three sample sets are filled by add, merged the way the join loop merges
\* the workers' sets, and asked for the statistics Report::new asks for.
jobvars == <<now, cfg, mpc, start, path, chunk, wbuf, store, task, preparedAt,
             wk, joined, acc, result>>

SampleInit ==
  /\ now = 0
  /\ cfg = [num_jobs |-> NoneJobs, workload |-> "upload",
            file_size |-> MinFileSize, run_time |-> 0]
  /\ mpc = "entry"
  /\ start = 0
  /\ path = ""
  /\ chunk = 0
  /\ wbuf = 0
  /\ store = [k \in Keys |-> 0]
  /\ task = NoTask
  /\ preparedAt = -1
  /\ wk = [w \in Workers |-> NewWorker]
  /\ joined = 0
  /\ acc = EmptyTriple
  /\ result = NoResult
  /\ ss = NoSets

\* SampleSet::add(v) on set x
SAdd(x, v) ==
  /\ ss.phase = "build"
  /\ Len(ss[x]) < MaxLen
  /\ ss' = [ss EXCEPT ![x] = add(@, F64(v)),
                      !.out = [op |-> "add", before |-> ss[x],
                               value |-> F64(v), after |-> add(ss[x], F64(v))]]
  /\ UNCHANGED jobvars

\* a.merge(b).merge(c), with the other two orders of merging for comparison
SMerge ==
  /\ ss.phase = "build"
  /\ ss' = [phase |-> "merged",
            a |-> merge(merge(ss.a, ss.b), ss.c),
            b |-> SampleSet_default,
            c |-> SampleSet_default,
            out |-> [op |-> "merge", a |-> ss.a, b |-> ss.b, c |-> ss.c,
                     ab |-> merge(ss.a, ss.b),
                     ab_c |-> merge(merge(ss.a, ss.b), ss.c),
                     a_bc |-> merge(ss.a, merge(ss.b, ss.c)),
                     ba_c |-> merge(merge(ss.b, ss.a), ss.c)]]
  /\ UNCHANGED jobvars

\* the statistics of the merged set a, as main hands the result of Job::run
\* to Report::new, with percentile p; overflow_checks is the build's
\* overflow checking
SQuery(p, overflow_checks) ==
  /\ ss.phase = "merged"
  /\ ss' = [ss EXCEPT !.out =
              [op |-> "query", set |-> ss.a, p |-> p,
               num_samples |-> num_samples(ss.a),
               min |-> min(ss.a), max |-> max(ss.a), avg |-> avg(ss.a),
               stdev |-> stdev(ss.a),
               pct |-> percentile(ss.a, p, overflow_checks)]]
  /\ UNCHANGED jobvars

SampleNext ==
  \/ \E x \in {"a", "b", "c"}, v \in Vals : SAdd(x, v)
  \/ SMerge
  \/ \E p \in Percents, oc \in BOOLEAN : SQuery(p, oc)

SampleSpec == SampleInit /\ [][SampleNext]_vars

TypeOK ==
  /\ now \in 0..MaxTime
  /\ mpc \in {"entry", "build_operator", "build_runtime", "prepare",
              "staging_open", "staging_write", "spawn", "join", "returned",
              "panicked"}
  /\ joined \in 0..Cardinality(Workers)
  /\ result.status \in {"none", "ok", "err"}

\* ================================================================ claims
Spawned == {w \in Workers : wk[w].pc # "unspawned"}

RECURSIVE SumCount(_)
SumCount(n) == IF n = 0 THEN 0 ELSE wk[n].count + SumCount(n - 1)

StagingFailures ==
  {"prepare_build_operator", "staging_open", "staging_write", "staging_close"}

\* C1: once Job::run has returned, if any worker's loop aborted with an
\* error then the result is an error and carries no sample set; the samples
\* of the workers that finished are not reported.
C1_WorkerErrorFailsRun ==
  (mpc = "returned" /\ \E w \in Workers : wk[w].pc = "failed")
    => (result.status = "err" /\ result.samples = EmptyTriple)

\* C1 witness: the run returned an error although another worker finished
\* its loop with samples.
C1_Witness ==
  /\ mpc = "returned"
  /\ result.status = "err"
  /\ \E w1, w2 \in Workers :
       /\ wk[w1].pc = "failed"
       /\ wk[w2].pc = "done"
       /\ wk[w2].count > 0

\* C2: when Job::run succeeds, the merged bandwidth sample set holds exactly
\* as many observations as the workers completed iterations in total.
C2_MergedCountIsSum ==
  result.status = "ok"
    => num_samples(result.samples.bandwidth) = SumCount(num_jobs)

\* C2 witness: a successful run of two workers that completed different,
\* non-zero numbers of iterations.
C2_Witness ==
  /\ result.status = "ok"
  /\ num_jobs = 2
  /\ wk[1].count > 0
  /\ wk[2].count > wk[1].count

\* C3 as stated: no operation is in flight that was started when the
\* elapsed time was greater than or equal to the run duration.
C3_NoStartAtOrAfterDeadline ==
  \A w \in Workers :
    wk[w].pc = "inflight" => elapsed(wk[w].task_start) < run_time

\* C3 amended: a worker leaves its loop at an iteration boundary exactly when
\* the elapsed time read there is strictly greater than the run duration; an
\* operation is started only after a deadline test that read an elapsed
\* time less than or equal to the run duration.
C3_ExitOnlyAfterDeadline ==
  \A w \in Workers :
    /\ wk[w].pc \in {"starting", "inflight"} => wk[w].lastCheck <= run_time
    /\ wk[w].pc = "done" => wk[w].lastCheck > run_time

\* C3 witness: after a completed iteration, a worker started an operation at
\* elapsed time exactly equal to the run duration.
C3_Witness ==
  \E w \in Workers :
    /\ wk[w].pc = "inflight"
    /\ wk[w].count > 0
    /\ wk[w].lastCheck = run_time

\* C4: a worker that has returned from its loop read, at the deadline test
\* it returned from, a time no later than the shared start plus the run
\* duration plus the latency of its last operation (none when it started no
\* operation), and it completed at most one operation after the run duration
\* had elapsed.
C4_ReturnWithinOneLatency ==
  \A w \in Workers :
    /\ wk[w].pc = "done"
         => start + wk[w].lastCheck <= start + run_time + wk[w].lastLat
    /\ wk[w].late <= 1

\* C5: an Upload run with one worker and a positive run duration, in which
\* no storage write failed, returns Ok with at least one bandwidth sample.
C5_UploadHasSample ==
  (/\ mpc = "returned"
   /\ cfg.workload = "upload"
   /\ num_jobs = 1
   /\ run_time > 0
   /\ result.failedAt \notin {"build_operator", "build_runtime"}
   /\ wk[1].errors = 0)
    => (result.status = "ok" /\ num_samples(result.samples.bandwidth) >= 1)

\* C6: every bandwidth observation of every worker is a positive finite
\* number.
C6_BandwidthPositiveFinite ==
  \A w \in Workers :
    \A i \in 1..Len(wk[w].bandwidth) : IsPositiveFinite(wk[w].bandwidth[i])

\* C7: if the staging write of prepare_task failed, Job::run has returned an
\* error, no worker was spawned and no timed operation was issued.
C7_StagingFailureFailsFast ==
  result.failedAt \in StagingFailures
    => /\ mpc = "returned"
       /\ result.status = "err"
       /\ \A w \in Workers : wk[w].pc = "unspawned" /\ wk[w].issued = 0

\* C7 witness: the second chunk write of the staging loop failed.
C7_Witness ==
  /\ result.failedAt = "staging_write"
  /\ cfg.workload = "download"
  /\ chunk = 1

\* C8: once the workers are spawned, the shared start instant is not earlier
\* than the moment prepare_task returned.
C8_StartAfterPrepare ==
  mpc \in {"join", "returned"} /\ preparedAt >= 0 => start >= preparedAt

\* C9: a worker whose operation failed has terminated with the error, made
\* no storage call and issued no operation after the failed one (the last
\* call of its last operation is the one that failed), and appended nothing
\* for the failed iteration.
C9_NoRetry ==
  \A w \in Workers :
    wk[w].errors > 0
      => /\ wk[w].pc = "failed"
         /\ wk[w].errors = 1
         /\ wk[w].issued = wk[w].count + 1
         /\ wk[w].step \in 1..TaskRunCalls(wk[w].target)
         /\ num_samples(wk[w].bandwidth) = wk[w].count
         /\ num_samples(wk[w].latency) = wk[w].count
         /\ num_samples(wk[w].iops) = wk[w].count

\* C9 witness: a worker's second operation, an upload, failed at its first
\* chunk write.
C9_Witness ==
  \E w \in Workers :
    /\ wk[w].pc = "failed"
    /\ wk[w].count = 1
    /\ wk[w].target.kind = "upload"
    /\ wk[w].step = 2

\* C10: when Job::run has returned, every spawned worker has finished its
\* loop (by the deadline or by its own error); none was cancelled.
C10_ReturnAfterAllWorkers ==
  mpc = "returned"
    => \A w \in Spawned : wk[w].pc \in {"done", "failed"}

\* C11: after a successful Upload iteration, the byte count it reported
\* equals the number of bytes it handed to the storage writer.
C11_UploadReportsHandedBytes ==
  \A w \in Workers :
    (wk[w].target.kind = "upload" /\ wk[w].count > 0)
      => wk[w].bytes = wk[w].handed

\* C12: once the Download task is built, the object staged under the
\* generated key has exactly the configured payload size.
C12_StagedObjectHasFileSize ==
  task.kind = "download" => store[task.path] = cfg.file_size

\* C19: once built, the Task never changes, it is built before any worker
\* is spawned, and every spawned worker operates on a task equal to it:
\* same key, same variant (the configured workload) and same size.
C19_TaskBuiltOnceAndShared ==
  /\ [](/\ Spawned # {} => task # NoTask
        /\ task # NoTask => task.kind = cfg.workload /\ task.path = path
        /\ \A w \in Spawned : wk[w].target = task)
  /\ [][task # NoTask => task' = task]_vars

\* C19 witness: two workers of an Upload run of the large payload have
\* each completed an operation.
C19_Witness ==
  /\ task.kind = "upload"
  /\ task.file_size = LargeFileSize
  /\ wk[1].count > 0
  /\ wk[2].count > 0

\* C20: Job::run never executes with zero workers.
C20_AtLeastOneWorker ==
  mpc # "entry" => num_jobs >= 1

\* ------------------------------------------------- claims on sample sets
Occ(seq, v) == Cardinality({i \in DOMAIN seq : seq[i] = v})

SameBag(x, y) ==
  /\ Len(x) = Len(y)
  /\ \A i \in DOMAIN x : Occ(x, x[i]) = Occ(y, x[i])

\* v is the element at 0-based index k of seq sorted ascending
IsKthSmallest(seq, k, v) ==
  /\ \E i \in DOMAIN seq : seq[i] = v
  /\ Cardinality({i \in DOMAIN seq : FLt(seq[i], v)}) <= k
  /\ k < Cardinality({i \in DOMAIN seq : ~FLt(v, seq[i])})

RECURSIVE IntSum(_)
IntSum(seq) == IF seq = << >> THEN 0 ELSE Head(seq)[1] + IntSum(Tail(seq))

\* sum over the whole-number observations x of seq of (n * x - s)^2
RECURSIVE ScaledSquares(_, _, _)
ScaledSquares(seq, n, s) ==
  IF seq = << >> THEN 0
  ELSE (n * Head(seq)[1] - s) * (n * Head(seq)[1] - s)
       + ScaledSquares(Tail(seq), n, s)

Undefined(x) == x \in {NaN, Panic}

Query == ss.out.op = "query"

\* C13: merging three sample sets in the orders (A.B).C, A.(B.C) and (B.A).C
\* gives the same multiset of observations, hence the same minimum, maximum
\* and percentiles.
C13_MergeOrderIrrelevant ==
  ss.out.op = "merge"
    => LET o == ss.out IN
       /\ SameBag(o.ab_c, o.a_bc)
       /\ SameBag(o.ab_c, o.ba_c)
       /\ min(o.ab_c) = min(o.a_bc) /\ min(o.ab_c) = min(o.ba_c)
       /\ max(o.ab_c) = max(o.a_bc) /\ max(o.ab_c) = max(o.ba_c)
       /\ \A p \in Percents :
            /\ percentile(o.ab_c, p, FALSE) = percentile(o.a_bc, p, FALSE)
            /\ percentile(o.ab_c, p, FALSE) = percentile(o.ba_c, p, FALSE)

\* C13 witness: three non-empty sets were merged and the order of merging
\* shows in the order of the observations.
C13_Witness ==
  /\ ss.out.op = "merge"
  /\ ss.out.a # << >> /\ ss.out.b # << >> /\ ss.out.c # << >>
  /\ ss.out.ab_c # ss.out.ba_c

\* C14: add(v) yields the previous observations followed by v; merge yields
\* the observations of the first set followed by those of the second, so
\* the count after a merge is the sum of the two counts.
C14_AppendOnly ==
  /\ ss.out.op = "add"
       => ss.out.after = ss.out.before \o <<ss.out.value>>
  /\ ss.out.op = "merge"
       => /\ ss.out.ab = ss.out.a \o ss.out.b
          /\ num_samples(ss.out.ab)
               = num_samples(ss.out.a) + num_samples(ss.out.b)
          /\ ss.a = (ss.out.a \o ss.out.b) \o ss.out.c
          /\ num_samples(ss.a) = num_samples(ss.out.ab) + num_samples(ss.out.c)

\* C14 witness: an observation was added to a set that held a different one.
C14_Witness ==
  /\ ss.out.op = "add"
  /\ ss.out.before # << >>
  /\ ss.out.before[1] # ss.out.value

\* C15: on a non-empty set of N observations and p in [0,100], percentile(p)
\* is the element at index floor((N-1) * p / 100) of the observations sorted
\* ascending, and the stored observations are left as they were.
C15_NearestRank ==
  (Query /\ ss.out.set # << >> /\ ss.out.p \in 0..100)
    => /\ IsKthSmallest(ss.out.set,
                        ((Len(ss.out.set) - 1) * ss.out.p) \div 100,
                        ss.out.pct)
       /\ ss.a = ss.out.set

\* C15 witness: the median of at least three observations stored out of
\* order was asked for.
C15_Witness ==
  /\ Query
  /\ ss.out.p = 50
  /\ Len(ss.out.set) >= 3
  /\ ss.out.set # Sort(ss.out.set)

\* C16: on a non-empty set percentile(0) is min() and percentile(100) is
\* max(); on a single-element set every percentile in [0,100] is that
\* element.
C16_PercentileEnds ==
  (Query /\ ss.out.set # << >>)
    => /\ ss.out.p = 0 => ss.out.pct = ss.out.min
       /\ ss.out.p = 100 => ss.out.pct = ss.out.max
       /\ (Len(ss.out.set) = 1 /\ ss.out.p \in 0..100)
            => ss.out.pct = ss.out.set[1]

\* C16 witness: percentile(100) was asked of a set whose minimum and maximum
\* differ.
C16_Witness ==
  /\ Query
  /\ ss.out.p = 100
  /\ Len(ss.out.set) >= 2
  /\ ss.out.min # ss.out.max

\* C17: on an empty set each of min, max, avg, stdev and percentile yields
\* NaN or fails loudly.
C17_EmptySetFlagged ==
  (Query /\ ss.out.set = << >>)
    => /\ Undefined(ss.out.min)
       /\ Undefined(ss.out.max)
       /\ Undefined(ss.out.avg)
       /\ Undefined(ss.out.stdev.sqrt_of)
       /\ Undefined(ss.out.pct)

\* C18: on a non-empty set of N values min() is the smallest, max() the
\* largest, avg() the sum divided by N and stdev() the square root of the
\* sum of squared deviations from the mean divided by N; [1,2,3,4] gives
\* 1, 4, 2.5 and variance 1.25.
C18_Statistics ==
  /\ (Query /\ ss.out.set # << >>)
       => LET o == ss.out
              n == Len(o.set)
              s == IntSum(o.set)
          IN /\ IsKthSmallest(o.set, 0, o.min)
             /\ IsKthSmallest(o.set, n - 1, o.max)
             /\ o.avg[2] > 0
             /\ o.avg[1] * n = s * o.avg[2]
             /\ o.stdev.sqrt_of[2] > 0
             /\ o.stdev.sqrt_of[1] * n * n * n
                  = ScaledSquares(o.set, n, s) * o.stdev.sqrt_of[2]
  /\ LET e == <<F64(1), F64(2), F64(3), F64(4)>>
     IN /\ min(e) = F64(1)
        /\ max(e) = F64(4)
        /\ avg(e) = <<5, 2>>
        /\ stdev(e) = FSqrt(<<5, 4>>)

\* C18 witness: the statistics of at least three observations, not all
\* equal, were taken.
C18_Witness ==
  /\ Query
  /\ Len(ss.out.set) >= 3
  /\ ss.out.min # ss.out.max

\* ----------------------------------------------- claims on the whole run
\* C21: at every position of a worker other than between lines 57 and 60,
\* iteration boundaries included, its bandwidth, latency and iops sets each
\* hold as many observations as its iteration counter, and the three merged
\* sets of a successful run have equal counts.
C21_OneObservationPerIteration ==
  /\ \A w \in Workers :
       wk[w].pc # "recording"
         => /\ num_samples(wk[w].bandwidth) = wk[w].count
            /\ num_samples(wk[w].latency) = wk[w].count
            /\ num_samples(wk[w].iops) = wk[w].count
  /\ result.status = "ok"
       => /\ num_samples(result.samples.bandwidth)
              = num_samples(result.samples.latency)
          /\ num_samples(result.samples.latency)
              = num_samples(result.samples.iops)

\* C21 witness: a successful run of two workers that each completed an
\* operation.
C21_Witness ==
  /\ result.status = "ok"
  /\ wk[1].count > 0
  /\ wk[2].count > 0
  /\ num_samples(result.samples.iops) = wk[1].count + wk[2].count

\* a worker loop that was never spawned, has returned or was dropped
Ended(w) == wk[w].pc \in {"unspawned", "done", "failed", "cancelled"}

\* C22: when time advances and every storage operation completes, every
\* worker loop eventually terminates and Job::run eventually returns, for
\* every number of workers and every interleaving.
C22_EventuallyReturns ==
  <>(mpc = "returned" /\ \A w \in Workers : Ended(w))

\* the same for the runs with at least one worker
C22_ReturnsWithWorkers ==
  num_jobs >= 1 => <>(mpc = "returned" /\ \A w \in Workers : Ended(w))

====
